---- MODULE Spec2Model ----
(***************************************************************************)
(* Model of the WeatherApp component (src/unnamed/part_000): its React     *)
(* state, its event handlers and the asynchronous fetchWeatherData chain   *)
(* (geocode request -> forecast request -> normalisation -> setCityData).  *)
(*                                                                         *)
(* Strings that the code inspects are sequences: the city input is a       *)
(* sequence of characters (trim() strips blanks at both ends); a dt_txt    *)
(* is the sequence of its blank-separated tokens, <<date, slot>> for       *)
(* "YYYY-MM-DD HH:MM:SS" and <<date>> for the date-only string.            *)
(* Numbers are exact rationals [n, d] in lowest terms.                     *)
(* Each handler, and each continuation of the async function after an      *)
(* await, runs to completion and its state updates are committed together. *)
(***************************************************************************)
EXTENDS Integers, Sequences, FiniteSets, TLC

\* ---- bounds of the model ----
MaxFetches == 2
MaxRaw == 3

\* ---- values ----
NULL == "null"
NoData == [null |-> TRUE]
Slots == 0 .. 1
SlotsPerDay == Cardinality(Slots)
Metrics == {"temp", "pressure", "humidity", "wind"}
Granularities == {"3h", "day"}
MsgNoKey == "API key is not configured"
MsgNotFound == "City not found"
MsgNetwork == "Network Error"

\* texts typed into the city input: empty, blank, a name with a trailing
\* blank, a second name
CityInputs == {<<>>, <<" ">>, <<"a", " ">>, <<"b">>}

\* ---- String.prototype.trim ----
RECURSIVE TrimStart(_)
TrimStart(s) ==
  IF s = <<>> THEN s
  ELSE IF Head(s) = " " THEN TrimStart(Tail(s)) ELSE s

RECURSIVE TrimEnd(_)
TrimEnd(s) ==
  IF s = <<>> THEN s
  ELSE IF s[Len(s)] = " " THEN TrimEnd(SubSeq(s, 1, Len(s) - 1)) ELSE s

Trim(s) == TrimEnd(TrimStart(s))

\* ---- numbers ----
RECURSIVE Gcd(_, _)
Gcd(a, b) == IF b = 0 THEN a ELSE Gcd(b, a % b)

Rat(n, d) == LET g == Gcd(n, d) IN [n |-> n \div g, d |-> d \div g]
Num(n) == Rat(n, 1)
RatAdd(x, y) == Rat(x.n * y.d + y.n * x.d, x.d * y.d)
RatDiv(x, k) == Rat(x.n, x.d * k)

\* ---- the forecast response ----
\* one entry of weatherRes.data.list; the readings differ from slot to slot
\* and from day to day
WeatherItem(date, slot) ==
  [dt_txt |-> <<date, slot>>,
   main |-> [temp |-> Num(10 + 10 * slot + (date - 1)),
             pressure |-> Num(1000 + 10 * slot),
             humidity |-> Num(50 + 10 * slot)],
   wind |-> [speed |-> Num(2 + 2 * slot + (date - 1))]]


\* an entry whose temperature is off by t: entries of one timestamp may differ
RawItem(date, slot, t) ==
  [WeatherItem(date, slot) EXCEPT !.main.temp = Num(10 + 10 * slot + (date - 1) + t)]

RawItems == {RawItem(d, s, t) : d \in 1 .. 2, s \in Slots, t \in {0, 3}}

RECURSIVE SeqsUpTo(_, _)
SeqsUpTo(S, n) ==
  IF n = 0 THEN {<<>>}
  ELSE LET prev == SeqsUpTo(S, n - 1)
       IN prev \cup {Append(q, x) : q \in {r \in prev : Len(r) = n - 1}, x \in S}

\* every answer of up to MaxRaw entries, in any order, timestamps repeated or not
RawLists == SeqsUpTo(RawItems, MaxRaw)

\* answers of the forecast request: no entry, one entry, two entries of one
\* day and two entries of two days, both listed latest first
ForecastLists ==
  {<<>>,
   <<WeatherItem(1, 0)>>,
   <<WeatherItem(1, 1), WeatherItem(1, 0)>>,
   <<WeatherItem(2, 0), WeatherItem(1, 1)>>}

\* new Date(dt_txt).getTime()
GetTime(dt_txt) ==
  IF Len(dt_txt) = 2 THEN dt_txt[1] * SlotsPerDay + dt_txt[2]
  ELSE dt_txt[1] * SlotsPerDay

\* weatherRes.data.list.map(item => ({dt_txt, temp, pressure, humidity, wind}))
MapItem(item) ==
  [dt_txt |-> item.dt_txt, temp |-> item.main.temp, pressure |-> item.main.pressure,
   humidity |-> item.main.humidity, wind |-> item.wind.speed]

MapList(list) == [i \in 1 .. Len(list) |-> MapItem(list[i])]

\* Array.prototype.sort with the comparator a.time - b.time (stable)
\* a comparator b - a: descending order
RECURSIVE InsertSorted_Descending(_, _)
InsertSorted_Descending(s, x) ==
  IF s = <<>> THEN <<x>>
  ELSE IF GetTime(x.dt_txt) - GetTime(s[Len(s)].dt_txt) > 0
       THEN Append(InsertSorted_Descending(SubSeq(s, 1, Len(s) - 1), x), s[Len(s)])
       ELSE Append(s, x)

\* a sort that is not stable: an entry moves in front of the entries of its
\* own timestamp
RECURSIVE InsertSorted_Unstable(_, _)
InsertSorted_Unstable(s, x) ==
  IF s = <<>> THEN <<x>>
  ELSE IF GetTime(s[Len(s)].dt_txt) - GetTime(x.dt_txt) >= 0
       THEN Append(InsertSorted_Unstable(SubSeq(s, 1, Len(s) - 1), x), s[Len(s)])
       ELSE Append(s, x)

RECURSIVE InsertSorted(_, _)
InsertSorted(s, x) ==
  IF s = <<>> THEN <<x>>
  ELSE IF GetTime(s[Len(s)].dt_txt) - GetTime(x.dt_txt) > 0
       THEN Append(InsertSorted(SubSeq(s, 1, Len(s) - 1), x), s[Len(s)])
       ELSE Append(s, x)

\* no sort: the entries stay in the order of the response
SortByTime_None(s) == s

RECURSIVE SortByTime(_)
SortByTime(s) ==
  IF s = <<>> THEN <<>>
  ELSE InsertSorted(SortByTime(SubSeq(s, 1, Len(s) - 1)), s[Len(s)])

\* data.forEach(item => ...): groupedData as the sequence of its entries in
\* key insertion order
DateOf(dt_txt) == <<dt_txt[1]>>

GroupIndex(g, date) == {i \in 1 .. Len(g) : g[i].dt_txt = date}

\* a forEach callback that forgets count += 1
GroupStep_NoCount(g, item) ==
  LET date == DateOf(item.dt_txt)
      idx == GroupIndex(g, date)
  IN IF idx = {}
     THEN Append(g, [dt_txt |-> date, temp |-> item.temp, pressure |-> item.pressure,
                     humidity |-> item.humidity, wind |-> item.wind, count |-> 1])
     ELSE LET i == CHOOSE j \in idx : TRUE
          IN [g EXCEPT ![i] = [dt_txt |-> g[i].dt_txt,
                               temp |-> RatAdd(g[i].temp, item.temp),
                               pressure |-> RatAdd(g[i].pressure, item.pressure),
                               humidity |-> RatAdd(g[i].humidity, item.humidity),
                               wind |-> RatAdd(g[i].wind, item.wind),
                               count |-> g[i].count]]

GroupStep(g, item) ==
  LET date == DateOf(item.dt_txt)
      idx == GroupIndex(g, date)
  IN IF idx = {}
     THEN Append(g, [dt_txt |-> date, temp |-> item.temp, pressure |-> item.pressure,
                     humidity |-> item.humidity, wind |-> item.wind, count |-> 1])
     ELSE LET i == CHOOSE j \in idx : TRUE
          IN [g EXCEPT ![i] = [dt_txt |-> g[i].dt_txt,
                               temp |-> RatAdd(g[i].temp, item.temp),
                               pressure |-> RatAdd(g[i].pressure, item.pressure),
                               humidity |-> RatAdd(g[i].humidity, item.humidity),
                               wind |-> RatAdd(g[i].wind, item.wind),
                               count |-> g[i].count + 1]]

RECURSIVE GroupByDay(_)
GroupByDay(data) ==
  IF data = <<>> THEN <<>>
  ELSE GroupStep(GroupByDay(SubSeq(data, 1, Len(data) - 1)), data[Len(data)])

\* Object.keys(groupedData).map(date => ({dt_txt: date, temp: sum / count, ...}))
AverageGroups(g) ==
  [i \in 1 .. Len(g) |->
     [dt_txt |-> g[i].dt_txt,
      temp |-> RatDiv(g[i].temp, g[i].count),
      pressure |-> RatDiv(g[i].pressure, g[i].count),
      humidity |-> RatDiv(g[i].humidity, g[i].count),
      wind |-> RatDiv(g[i].wind, g[i].count)]]

\* normalisation that never aggregates
Normalize_NoAggregate(list, gran) == SortByTime(MapList(list))

\* lines 64-100: map, sort, and aggregate when granularity === 'day'
Normalize(list, gran) ==
  LET data == SortByTime(MapList(list))
  IN IF gran = "day" THEN AverageGroups(GroupByDay(data)) ELSE data

\* ---- state ----
VARIABLES
  apiKey,       \* process.env.REACT_APP_OPENWEATHER_API_KEY is set
  city,         \* useState('')
  cityData,     \* useState<WeatherData | null>(null)
  metric,       \* useState('temp')
  granularity,  \* useState('3h')
  isLoading,    \* useState(false)
  error,        \* useState<string | null>(null)
  inflight,     \* the fetchWeatherData calls suspended at an await
  nextId,       \* number of the next fetchWeatherData call that issues a request
  last          \* the handler or continuation that ran last

vars == <<apiKey, city, cityData, metric, granularity, isLoading, error, inflight, nextId, last>>

Event(op) == [op |-> op]

Init ==
  /\ apiKey \in BOOLEAN
  /\ city = <<>>
  /\ cityData = NoData
  /\ metric = "temp"
  /\ granularity = "3h"
  /\ isLoading = FALSE
  /\ error = NULL
  /\ inflight = {}
  /\ nextId = 1
  /\ last = Event("init")

\* fetchWeatherData that does not clear the error when it starts
FetchWeatherData_KeepsError(cityName, gran) ==
  IF ~apiKey
  THEN /\ error' = MsgNoKey
       /\ UNCHANGED <<isLoading, inflight, nextId>>
  ELSE /\ nextId <= MaxFetches
       /\ isLoading' = TRUE
       /\ error' = error
       /\ inflight' = inflight \cup {[id |-> nextId, cityName |-> cityName,
                                      granularity |-> gran, pc |-> "geo"]}
       /\ nextId' = nextId + 1

\* fetchWeatherData that checks the credential only after setIsLoading(true)
FetchWeatherData_LateKeyCheck(cityName, gran) ==
  IF ~apiKey
  THEN /\ error' = MsgNoKey
       /\ isLoading' = TRUE
       /\ UNCHANGED <<inflight, nextId>>
  ELSE /\ nextId <= MaxFetches
       /\ isLoading' = TRUE
       /\ error' = NULL
       /\ inflight' = inflight \cup {[id |-> nextId, cityName |-> cityName,
                                      granularity |-> gran, pc |-> "geo"]}
       /\ nextId' = nextId + 1

\* lines 40-50: fetchWeatherData up to its first await
FetchWeatherData(cityName, gran) ==
  IF ~apiKey
  THEN /\ error' = MsgNoKey
       /\ UNCHANGED <<isLoading, inflight, nextId>>
  ELSE /\ nextId <= MaxFetches
       /\ isLoading' = TRUE
       /\ error' = NULL
       /\ inflight' = inflight \cup {[id |-> nextId, cityName |-> cityName,
                                      granularity |-> gran, pc |-> "geo"]}
       /\ nextId' = nextId + 1

\* handleCitySubmit that tests city instead of city.trim()
handleCitySubmit_NoTrim ==
  /\ ~isLoading
  /\ IF city # <<>>
     THEN FetchWeatherData(Trim(city), granularity)
     ELSE UNCHANGED <<isLoading, error, inflight, nextId>>
  /\ last' = Event("submit")
  /\ UNCHANGED <<apiKey, city, cityData, metric, granularity>>

\* handleCitySubmit that passes city instead of city.trim()
handleCitySubmit_Untrimmed ==
  /\ ~isLoading
  /\ IF Trim(city) # <<>>
     THEN FetchWeatherData(city, granularity)
     ELSE UNCHANGED <<isLoading, error, inflight, nextId>>
  /\ last' = Event("submit")
  /\ UNCHANGED <<apiKey, city, cityData, metric, granularity>>

\* lines 112-117; the submit button is disabled while isLoading (line 163)
handleCitySubmit ==
  /\ ~isLoading
  /\ IF Trim(city) # <<>>
     THEN FetchWeatherData(Trim(city), granularity)
     ELSE UNCHANGED <<isLoading, error, inflight, nextId>>
  /\ last' = Event("submit")
  /\ UNCHANGED <<apiKey, city, cityData, metric, granularity>>

\* lines 119-121; the input is disabled while isLoading (line 161)
handleInputChange(value) ==
  /\ ~isLoading
  /\ value # city
  /\ city' = value
  /\ last' = [op |-> "input", value |-> value]
  /\ UNCHANGED <<apiKey, cityData, metric, granularity, isLoading, error, inflight, nextId>>

\* handleMetricChange that re-fetches like handleGranularityChange
handleMetricChange_Refetch(value) ==
  /\ value # metric
  /\ metric' = value
  /\ IF Trim(city) # <<>>
     THEN FetchWeatherData(Trim(city), granularity)
     ELSE UNCHANGED <<isLoading, error, inflight, nextId>>
  /\ last' = [op |-> "metric", value |-> value]
  /\ UNCHANGED <<apiKey, city, cityData, granularity>>

\* lines 123-125
handleMetricChange(value) ==
  /\ value # metric
  /\ metric' = value
  /\ last' = [op |-> "metric", value |-> value]
  /\ UNCHANGED <<apiKey, city, cityData, granularity, isLoading, error, inflight, nextId>>

\* handleGranularityChange that passes the granularity of the last render
handleGranularityChange_Stale(newGranularity) ==
  /\ newGranularity # granularity
  /\ granularity' = newGranularity
  /\ IF Trim(city) # <<>>
     THEN FetchWeatherData(Trim(city), granularity)
     ELSE UNCHANGED <<isLoading, error, inflight, nextId>>
  /\ last' = [op |-> "granularity", value |-> newGranularity]
  /\ UNCHANGED <<apiKey, city, cityData, metric>>

\* lines 127-134
handleGranularityChange(newGranularity) ==
  /\ newGranularity # granularity
  /\ granularity' = newGranularity
  /\ IF Trim(city) # <<>>
     THEN FetchWeatherData(Trim(city), newGranularity)
     ELSE UNCHANGED <<isLoading, error, inflight, nextId>>
  /\ last' = [op |-> "granularity", value |-> newGranularity]
  /\ UNCHANGED <<apiKey, city, cityData, metric>>

\* a catch block that also drops the held series
FetchFailed_ClearsData(f, message, op) ==
  /\ error' = message
  /\ isLoading' = FALSE
  /\ cityData' = NoData
  /\ inflight' = inflight \ {f}
  /\ last' = [op |-> op, fetch |-> f]
  /\ UNCHANGED <<apiKey, city, metric, granularity, nextId>>

\* a catch block without the finally that resets isLoading
FetchFailed_NoFinally(f, message, op) ==
  /\ error' = message
  /\ inflight' = inflight \ {f}
  /\ last' = [op |-> op, fetch |-> f]
  /\ UNCHANGED <<apiKey, city, cityData, metric, granularity, isLoading, nextId>>

\* catch + finally, lines 104-109
FetchFailed(f, message, op) ==
  /\ error' = message
  /\ isLoading' = FALSE
  /\ inflight' = inflight \ {f}
  /\ last' = [op |-> op, fetch |-> f]
  /\ UNCHANGED <<apiKey, city, cityData, metric, granularity, nextId>>

\* line 50 rejects: transport error or non-2xx answer of the geocode request
GeoError(f) ==
  /\ f.pc = "geo"
  /\ FetchFailed(f, MsgNetwork, "geoError")

\* without the length test, destructuring geoRes.data[0] throws a TypeError
MsgTypeError == "Cannot destructure property 'lat' of 'geoRes.data[0]' as it is undefined."
GeoEmpty_NoLengthTest(f) ==
  /\ f.pc = "geo"
  /\ FetchFailed(f, MsgTypeError, "geoEmpty")

\* lines 54-56: the geocode answer is an empty list
GeoEmpty(f) ==
  /\ f.pc = "geo"
  /\ FetchFailed(f, MsgNotFound, "geoEmpty")

\* lines 58-62: a match was found, the forecast request is issued
GeoFound(f) ==
  /\ f.pc = "geo"
  /\ inflight' = (inflight \ {f}) \cup {[f EXCEPT !.pc = "forecast"]}
  /\ last' = [op |-> "geoFound", fetch |-> f]
  /\ UNCHANGED <<apiKey, city, cityData, metric, granularity, isLoading, error, nextId>>

\* line 60 rejects
ForecastError(f) ==
  /\ f.pc = "forecast"
  /\ FetchFailed(f, MsgNetwork, "forecastError")

\* a success path with a request-sequence token: the answer of a fetch that
\* is not the latest issued is discarded
ForecastOk_DiscardStale(f, list) ==
  /\ f.pc = "forecast"
  /\ cityData' = IF f.id = nextId - 1
                 THEN [city |-> f.cityName, data |-> Normalize(list, f.granularity)]
                 ELSE cityData
  /\ isLoading' = FALSE
  /\ inflight' = inflight \ {f}
  /\ last' = [op |-> "forecastOk", fetch |-> f, list |-> list]
  /\ UNCHANGED <<apiKey, city, metric, granularity, error, nextId>>

\* a success path that appends the new points to the held ones
ForecastOk_Merge(f, list) ==
  /\ f.pc = "forecast"
  /\ cityData' = [city |-> f.cityName,
                  data |-> (IF cityData = NoData THEN <<>> ELSE cityData.data)
                             \o Normalize(list, f.granularity)]
  /\ isLoading' = FALSE
  /\ inflight' = inflight \ {f}
  /\ last' = [op |-> "forecastOk", fetch |-> f, list |-> list]
  /\ UNCHANGED <<apiKey, city, metric, granularity, error, nextId>>

\* lines 64-103 and the finally of line 108
ForecastOk(f, list) ==
  /\ f.pc = "forecast"
  /\ cityData' = [city |-> f.cityName, data |-> Normalize(list, f.granularity)]
  /\ isLoading' = FALSE
  /\ inflight' = inflight \ {f}
  /\ last' = [op |-> "forecastOk", fetch |-> f, list |-> list]
  /\ UNCHANGED <<apiKey, city, metric, granularity, error, nextId>>

Next ==
  \/ handleCitySubmit
  \/ \E value \in CityInputs : handleInputChange(value)
  \/ \E value \in Metrics : handleMetricChange(value)
  \/ \E value \in Granularities : handleGranularityChange(value)
  \/ \E f \in inflight : GeoError(f)
  \/ \E f \in inflight : GeoEmpty(f)
  \/ \E f \in inflight : GeoFound(f)
  \/ \E f \in inflight : ForecastError(f)
  \/ \E f \in inflight, list \in ForecastLists : ForecastOk(f, list)

Spec == Init /\ [][Next]_vars

\* The runs in which fetches never overlap: at most one fetchWeatherData call
\* is suspended at any time.
NonOverlapNext == Next /\ Cardinality(inflight') <= 1

NonOverlapSpec == Init /\ [][NonOverlapNext]_vars

\* The normalisation alone: one fetchWeatherData call is suspended at the
\* forecast request (line 60), for either granularity, and the request is
\* answered with any list of RawLists.
NormalizeInit ==
  /\ apiKey = TRUE
  /\ city = <<"b">>
  /\ cityData = NoData
  /\ metric = "temp"
  /\ granularity \in Granularities
  /\ isLoading = TRUE
  /\ error = NULL
  /\ inflight = {[id |-> 1, cityName |-> <<"b">>, granularity |-> granularity, pc |-> "forecast"]}
  /\ nextId = 2
  /\ last = [op |-> "geoFound",
             fetch |-> [id |-> 1, cityName |-> <<"b">>, granularity |-> granularity, pc |-> "geo"]]

NormalizeNext == \E f \in inflight, list \in RawLists : ForecastOk(f, list)

NormalizeSpec == NormalizeInit /\ [][NormalizeNext]_vars

\* every request that was issued is eventually answered or rejected
Respond(f) == GeoError(f) \/ GeoEmpty(f) \/ GeoFound(f) \/ ForecastError(f)
                \/ \E list \in ForecastLists : ForecastOk(f, list)

LiveSpec == Spec /\ WF_vars(\E f \in inflight : Respond(f))

TypeOK ==
  /\ apiKey \in BOOLEAN
  /\ city \in CityInputs
  /\ metric \in Metrics
  /\ granularity \in Granularities
  /\ isLoading \in BOOLEAN
  /\ error \in {NULL, MsgNoKey, MsgNotFound, MsgNetwork}
  /\ nextId \in 1 .. MaxFetches + 1
  /\ \A f \in inflight : f.id \in 1 .. MaxFetches /\ f.pc \in {"geo", "forecast"}

\* ---- properties ----
FailureOps == {"geoError", "geoEmpty", "forecastError"}

\* C1: a failing fetch (geocode transport error, empty geocode result,
\* forecast failure) leaves citySeries, the city input, the metric and the
\* granularity as they were; it changes only errorMessage and isLoading.
C1_FailureKeepsSeries ==
  [][last'.op \in FailureOps =>
       /\ UNCHANGED <<cityData, city, metric, granularity>>
       /\ error' \in {MsgNetwork, MsgNotFound}
       /\ isLoading' = FALSE]_vars

C1_Witness ==
  /\ last.op = "forecastError"
  /\ cityData # NoData
  /\ error = MsgNetwork

\* C2: right after a fetch completes successfully errorMessage is absent,
\* also when fetches overlap.
C2_SuccessLeavesNoError == last.op = "forecastOk" => error = NULL

\* the days of a raw list, and the mean of one field over one day of it
DatesOf(list) == {DateOf(list[i].dt_txt) : i \in 1 .. Len(list)}

RECURSIVE SumOfDay(_, _, _)
SumOfDay(list, date, field) ==
  IF list = <<>> THEN Num(0)
  ELSE LET rest == SumOfDay(Tail(list), date, field)
           item == MapItem(Head(list))
       IN IF DateOf(item.dt_txt) = date THEN RatAdd(item[field], rest) ELSE rest

CountOfDay(list, date) == Cardinality({i \in 1 .. Len(list) : DateOf(list[i].dt_txt) = date})

MeanOfDay(list, date, field) == RatDiv(SumOfDay(list, date, field), CountOfDay(list, date))

IsDayPoints(data) ==
  /\ \A i \in 1 .. Len(data) : Len(data[i].dt_txt) = 1
  /\ \A i, j \in 1 .. Len(data) : data[i].dt_txt = data[j].dt_txt => i = j

IsDayAggregateOf(data, list) ==
  /\ IsDayPoints(data)
  /\ {data[i].dt_txt : i \in 1 .. Len(data)} = DatesOf(list)
  /\ \A i \in 1 .. Len(data) : \A field \in Metrics :
        data[i][field] = MeanOfDay(list, data[i].dt_txt, field)

\* C3 as stated: whenever the selected granularity is "day" and a series is
\* held, every point of the series is a day-aggregated point.
C3_DayGranularityMeansDayPoints ==
  (granularity = "day" /\ cityData # NoData) => IsDayPoints(cityData.data)

\* C3 amended: right after a fetch that was passed granularity "day"
\* succeeds, the held series is the day aggregation of that fetch's
\* forecast: date-only timestamps, one point per calendar day, per-day means.
C3_DayFetchStoresDayPoints ==
  (last.op = "forecastOk" /\ last.fetch.granularity = "day") =>
     /\ cityData # NoData
     /\ IsDayAggregateOf(cityData.data, last.list)

C3_Witness ==
  /\ last.op = "forecastOk"
  /\ last.fetch.granularity = "day"
  /\ Len(last.list) = 2
  /\ Len(cityData.data) = 1

\* C4: isLoading and a present errorMessage never hold together.
C4_NotLoadingWithError == ~(isLoading /\ error # NULL)

C4_Witness ==
  /\ last.op \in FailureOps
  /\ error # NULL
  /\ ~isLoading
  /\ inflight # {}

\* C5: submitting an empty or whitespace-only city name starts no fetch and
\* leaves isLoading, errorMessage and citySeries unchanged.
C5_BlankSubmitIsNoOp ==
  [][(last'.op = "submit" /\ Trim(city) = <<>>) =>
       UNCHANGED <<isLoading, error, cityData, inflight, nextId>>]_vars

C5_Witness ==
  /\ last.op = "submit"
  /\ city = <<" ">>
  /\ cityData # NoData

\* C6: without an API credential a triggered fetch issues no request, sets
\* errorMessage to "API key is not configured", and neither sets isLoading
\* nor changes citySeries.
C6_NoKeyNoRequest ==
  [][(~apiKey /\ last'.op \in {"submit", "granularity"} /\ Trim(city) # <<>>) =>
       /\ error' = "API key is not configured"
       /\ inflight' = {}
       /\ nextId' = 1
       /\ isLoading' = FALSE
       /\ cityData' = cityData]_vars

C6_Witness ==
  /\ ~apiKey
  /\ last.op = "granularity"
  /\ error = MsgNoKey

\* C7: an empty geocode result issues no forecast request for that fetch,
\* sets errorMessage to "City not found", leaves citySeries unchanged and
\* leaves isLoading false.
C7_EmptyGeocode ==
  [][last'.op = "geoEmpty" =>
       /\ error' = "City not found"
       /\ cityData' = cityData
       /\ isLoading' = FALSE
       /\ \A g \in inflight' : g.id # last'.fetch.id]_vars

C7_Witness ==
  /\ last.op = "geoEmpty"
  /\ error = MsgNotFound
  /\ cityData # NoData

\* C8: every fetch that started sets isLoading to false when it finishes,
\* whatever its outcome; when requests are always answered and triggers have
\* stopped, every fetch finishes and isLoading ends up false.
CompletionOps == FailureOps \cup {"forecastOk"}

C8_LoadingEnds ==
  /\ [][last'.op \in CompletionOps => isLoading' = FALSE]_vars
  /\ <>[](inflight = {} /\ ~isLoading)

C8_Witness ==
  /\ last.op \in CompletionOps
  /\ nextId = MaxFetches + 1
  /\ inflight = {}
  /\ ~isLoading

\* C9: changeMetric updates selectedMetric only; it starts no fetch and
\* leaves citySeries, granularity, isLoading and errorMessage unchanged.
C9_MetricOnly ==
  [][last'.op = "metric" =>
       /\ metric' = last'.value
       /\ UNCHANGED <<city, cityData, granularity, isLoading, error, inflight, nextId>>]_vars

C9_Witness ==
  /\ last.op = "metric"
  /\ metric = "wind"
  /\ cityData # NoData
  /\ inflight # {}

\* C10: changeGranularity(value) sets selectedGranularity to value; with a
\* non-blank input it starts a fetch for the trimmed input whose
\* normalisation uses value, with a blank input it starts none.
C10_GranularityChange ==
  [][last'.op = "granularity" =>
       /\ granularity' = last'.value
       /\ IF Trim(city) = <<>>
          THEN UNCHANGED <<inflight, nextId, isLoading, error>>
          ELSE IF apiKey
               THEN /\ inflight' = inflight \cup
                         {[id |-> nextId, cityName |-> Trim(city),
                           granularity |-> last'.value, pc |-> "geo"]}
                    /\ nextId' = nextId + 1
               ELSE error' = MsgNoKey /\ inflight' = inflight]_vars

C10_Witness ==
  /\ last.op = "granularity"
  /\ city = <<"a", " ">>
  /\ \E f \in inflight :
        f.id = nextId - 1 /\ f.granularity = "day" /\ f.cityName = <<"a">> /\ f.pc = "geo"

\* ---- properties of the normalisation ----
Occurrences(seq, x) == Cardinality({i \in 1 .. Len(seq) : seq[i] = x})

IsPermutationOf(a, b) ==
  /\ Len(a) = Len(b)
  /\ \A i \in 1 .. Len(a) : Occurrences(a, a[i]) = Occurrences(b, a[i])

IsAscending(data) ==
  \A i, j \in 1 .. Len(data) : i < j => GetTime(data[i].dt_txt) <= GetTime(data[j].dt_txt)

\* the flat record of a response entry, written from the interfaces of lines 7-28
FlatOf(item) ==
  [dt_txt |-> item.dt_txt, temp |-> item.main.temp, pressure |-> item.main.pressure,
   humidity |-> item.main.humidity, wind |-> item.wind.speed]

\* C11: for a non-empty response, the "3h" series has the length of the
\* response, is a permutation of its (flattened) entries and is sorted
\* ascending by timestamp.
C11_ThreeHourSortedPermutation ==
  (last.op = "forecastOk" /\ last.fetch.granularity = "3h" /\ last.list # <<>>) =>
     /\ Len(cityData.data) = Len(last.list)
     /\ IsPermutationOf(cityData.data, [i \in 1 .. Len(last.list) |-> FlatOf(last.list[i])])
     /\ IsAscending(cityData.data)

C11_Witness ==
  /\ last.op = "forecastOk"
  /\ last.fetch.granularity = "3h"
  /\ Len(last.list) = 3
  /\ ~IsAscending([i \in 1 .. Len(last.list) |-> FlatOf(last.list[i])])
  /\ IsAscending(cityData.data)

\* C12: the "day" series has at most one point per calendar day of the
\* response, and each field of a point is the arithmetic mean of that field
\* over the response's entries of that day; the entries (10,1000,50,2) and
\* (20,1010,60,4) of day 1 give the single point (day 1, 15, 1005, 55, 3).
ExampleList == <<WeatherItem(1, 0), WeatherItem(1, 1)>>

ExamplePoints ==
  <<[dt_txt |-> <<1>>, temp |-> Num(15), pressure |-> Num(1005),
     humidity |-> Num(55), wind |-> Num(3)]>>

C12_DayMeans ==
  (last.op = "forecastOk" /\ last.fetch.granularity = "day") =>
     /\ Len(cityData.data) <= Cardinality(DatesOf(last.list))
     /\ IsDayAggregateOf(cityData.data, last.list)
     /\ (last.list = ExampleList => cityData.data = ExamplePoints)

C12_Witness ==
  /\ last.op = "forecastOk"
  /\ last.fetch.granularity = "day"
  /\ last.list = ExampleList
  /\ cityData.data = ExamplePoints

\* C13: a held series is sorted ascending by timestamp whatever the order of
\* the response; in a day series the days are in chronological order and no
\* date is repeated.
C13_HeldSeriesSorted ==
  cityData # NoData =>
     \A i, j \in 1 .. Len(cityData.data) :
        i < j =>
          /\ GetTime(cityData.data[i].dt_txt) <= GetTime(cityData.data[j].dt_txt)
          /\ (Len(cityData.data[i].dt_txt) = 1 =>
                cityData.data[i].dt_txt[1] < cityData.data[j].dt_txt[1])

C13_Witness ==
  /\ last.op = "forecastOk"
  /\ last.fetch.granularity = "day"
  /\ last.list = <<WeatherItem(2, 0), WeatherItem(1, 1)>>
  /\ Len(cityData.data) = 2
  /\ cityData.data[1].dt_txt = <<1>>
  /\ cityData.data[2].dt_txt = <<2>>

\* the response entry that carries the values of a flat record
NestOf(point) ==
  [dt_txt |-> point.dt_txt,
   main |-> [temp |-> point.temp, pressure |-> point.pressure, humidity |-> point.humidity],
   wind |-> [speed |-> point.wind]]

\* C14: normalising with "3h" the observations of a "3h" series, in the
\* order of the series, gives the series again.
C14_ThreeHourIdempotent ==
  (last.op = "forecastOk" /\ last.fetch.granularity = "3h") =>
     Normalize([i \in 1 .. Len(cityData.data) |-> NestOf(cityData.data[i])], "3h") = cityData.data

C14_Witness ==
  /\ last.op = "forecastOk"
  /\ last.fetch.granularity = "3h"
  /\ Len(cityData.data) = 3
  /\ \E i, j \in 1 .. 3 :
        /\ i < j
        /\ cityData.data[i].dt_txt = cityData.data[j].dt_txt
        /\ cityData.data[i] # cityData.data[j]
  /\ [i \in 1 .. 3 |-> NestOf(cityData.data[i])] # last.list

\* ---- properties of overlapping and of sequential fetches ----

\* C15: a fetch that succeeds always stores its own result, whichever fetch
\* was issued first, so after two overlapping successes the series of the
\* fetch that completed last is held; a fetch leaves the in-flight set only
\* by its own answer (no cancellation, no answer discarded as stale).
C15_LastCompletionWins ==
  [][/\ (last'.op = "forecastOk" =>
          cityData' = [city |-> last'.fetch.cityName,
                       data |-> Normalize(last'.list, last'.fetch.granularity)])
     /\ \A f \in inflight :
          (\A g \in inflight' : g.id # f.id) =>
             (last'.op \in CompletionOps /\ last'.fetch = f)]_vars

C15_Witness ==
  /\ last.op = "forecastOk"
  /\ last.fetch.id = 1
  /\ nextId = 3
  /\ inflight = {}
  /\ error = NULL
  /\ granularity # last.fetch.granularity
  /\ last.list # <<>>
  /\ cityData.data = Normalize(last.list, last.fetch.granularity)

\* C16: the held series only ever changes by being replaced as a whole by
\* one successful fetch: its cityName is the name passed to that fetch and
\* its points are that fetch's normalised forecast.
C16_WholeReplacement ==
  [][cityData' # cityData =>
       /\ last'.op = "forecastOk"
       /\ last'.fetch \in inflight
       /\ cityData'.city = last'.fetch.cityName
       /\ cityData'.data = Normalize(last'.list, last'.fetch.granularity)
       /\ Len(cityData'.data) <= Len(last'.list)]_vars

C16_Witness ==
  /\ last.op = "forecastOk"
  /\ last.fetch.id = 2
  /\ last.fetch.cityName = <<"b">>
  /\ cityData.city = <<"b">>
  /\ Len(cityData.data) = 2
  /\ Len(last.list) = 2

\* C17: isLoading is true whenever a fetch is in flight.
C17_LoadingWhileInFlight == inflight # {} => isLoading

\* C18: when fetches never overlap, right after a fetch succeeds the held
\* cityName is the trimmed city input, the series is day-aggregated exactly
\* when the granularity passed to the fetch was "day", and errorMessage is
\* absent.
C18_SequentialSuccess ==
  last.op = "forecastOk" =>
     /\ cityData.city = Trim(city)
     /\ last.fetch.granularity = granularity
     /\ IF last.fetch.granularity = "day"
        THEN IsDayAggregateOf(cityData.data, last.list)
        ELSE /\ Len(cityData.data) = Len(last.list)
             /\ \A i \in 1 .. Len(cityData.data) : Len(cityData.data[i].dt_txt) = 2
     /\ error = NULL

C18_Witness ==
  /\ last.op = "forecastOk"
  /\ last.fetch.id = 2
  /\ city = <<"a", " ">>
  /\ cityData.city = <<"a">>
  /\ last.fetch.granularity = "day"
  /\ Len(last.list) = 2
  /\ Len(cityData.data) = 1

====
